---- MODULE Spec2Model ----
(***************************************************************************)
(* Model of server.js: the Express application with the authenticate      *)
(* middleware, the multer upload validation, POST /upload-photo and       *)
(* GET /wardrobe.  Every await of a handler is one step: an action is the *)
(* resumption after one awaited collaborator call up to the next await    *)
(* (JavaScript runs that stretch without interleaving).  The collaborators *)
(* (Supabase auth/storage/database, Vision API, sharp) are the            *)
(* environment: each call nondeterministically succeeds, returns an error *)
(* or throws.  Strings whose content the code inspects (labels, the       *)
(* Authorization header, the type filter) are sequences of characters.    *)
(***************************************************************************)
EXTENDS Integers, Sequences, FiniteSets, TLC

\* ------------------------------------------------------------------ bounds
NumReq == 2
MaxObjects == 2

\* ------------------------------------------------------- program constants
fileSize == 5242880

\* rateLimit({ max: 100 }): requests one address may make in a window.
max == 100

Reqs == 1..NumReq
Users == {"u1", "u2"}
NoUser == "none"

\* ----------------------------------------------------------------- strings
\* String.prototype.toLowerCase on the characters the model uses.
ToLowerChar(c) ==
    CASE c = "A" -> "a" [] c = "C" -> "c" [] c = "E" -> "e" [] c = "J" -> "j"
      [] c = "N" -> "n" [] c = "O" -> "o" [] c = "P" -> "p" [] c = "S" -> "s"
      [] c = "T" -> "t" [] OTHER -> c

toLowerCase(s) == [i \in 1..Len(s) |-> ToLowerChar(s[i])]

\* String.prototype.includes: kw occurs in s as a contiguous substring.
includes(s, kw) ==
    \E i \in 0..(Len(s) - Len(kw)) : SubSeq(s, i + 1, i + Len(kw)) = kw

\* String.prototype.split(sep) for a one-character separator: the segments
\* between separators, empty segments kept.
RECURSIVE split(_, _)
split(s, sep) ==
    IF \A i \in 1..Len(s) : s[i] # sep
    THEN <<s>>
    ELSE LET k == CHOOSE i \in 1..Len(s) :
                     s[i] = sep /\ \A j \in 1..(i - 1) : s[j] # sep
         IN  <<SubSeq(s, 1, k - 1)>> \o split(SubSeq(s, k + 1, Len(s)), sep)

\* --------------------------------------------------------------- requests
\* An optional string (a header, a query parameter): undefined, or its text.
None == [present |-> FALSE, text |-> <<>>]
Some(s) == [present |-> TRUE, text |-> s]

\* The Authorization header values a client may send.
Headers ==
    { None,
      Some(<<"B">>),
      Some(<<"B", " ">>),
      Some(<<"B", " ", "t">>),
      Some(<<"t">>) }

\* tokenOf without the split: the whole header taken as the token.
tokenOfWholeHeader(h) == h

\* req.headers.authorization?.split(' ')[1]: undefined when there is no
\* header or no second segment.
tokenOf(h) ==
    IF ~h.present THEN None
    ELSE LET parts == split(h.text, " ")
         IN  IF Len(parts) >= 2 THEN Some(parts[2]) ELSE None

\* JavaScript truthiness of an optional string: undefined and '' are falsy.
\* A test that only asks whether the value is there.
truthyPresent(x) == x.present

truthy(x) == x.present /\ x.text # <<>>

\* The multipart part named photo: its declared mimetype, the format of its
\* bytes and its size in bytes; NoFile is a request without that part.
NoFile == [mimetype |-> "none", format |-> "none", size |-> 0]
Files ==
    { NoFile,
      [mimetype |-> "image/jpeg", format |-> "jpeg", size |-> 1024],
      [mimetype |-> "image/png",  format |-> "png",  size |-> 1024],
      [mimetype |-> "image/gif",  format |-> "gif",  size |-> 1024],
      [mimetype |-> "image/jpeg", format |-> "jpeg", size |-> fileSize + 1] }

\* upload.fileFilter: only jpeg and png are let through.
fileFilter(file) == file.mimetype = "image/jpeg" \/ file.mimetype = "image/png"

\* limits.fileSize: a part larger than the limit is refused by multer.
withinLimit(file) == file.size <= fileSize

\* ------------------------------------------------------------- detection
\* The labels objectLocalization may give an object.
Car    == <<"C", "a", "r">>
Top    == <<"T", "o", "p">>
JEANS  == <<"J", "E", "A", "N", "S">>
Labels == {Car, Top}

clothingKeywords ==
    { <<"s", "h", "i", "r", "t">>, <<"p", "a", "n", "t", "s">>,
      <<"d", "r", "e", "s", "s">>, <<"j", "a", "c", "k", "e", "t">>,
      <<"s", "h", "o", "e", "s">>, <<"f", "o", "o", "t", "w", "e", "a", "r">>,
      <<"t", "o", "p">>, <<"j", "e", "a", "n", "s">>,
      <<"c", "o", "a", "t">>, <<"s", "w", "e", "a", "t", "e", "r">> }

\* obj => clothingKeywords.some(kw => obj.name.toLowerCase().includes(kw))
isClothing(name) == \E kw \in clothingKeywords : includes(toLowerCase(name), kw)

\* Array.prototype.filter: the elements satisfying the test, in order.
RECURSIVE filterClothing(_)
filterClothing(objs) ==
    IF objs = <<>> THEN <<>>
    ELSE IF isClothing(Head(objs))
         THEN <<Head(objs)>> \o filterClothing(Tail(objs))
         ELSE filterClothing(Tail(objs))

\* What objectLocalization may answer in localizedObjectAnnotations: lists of
\* at most MaxObjects labelled objects (the field may also be missing).
ObjectLists == UNION {[1..n -> Labels] : n \in 0..MaxObjects}

\* ----------------------------------------------------------------- colors
\* A text built from pieces: the template literal's fixed parts and the
\* decimal rendering of each number.
decimal(n) ==
    CASE n = 0 -> "0" [] n = 48 -> "48" [] n = 79 -> "79" [] n = 122 -> "122"
      [] n = 255 -> "255" [] OTHER -> "NaN"

\* `rgb(${color.red}, ${color.green}, ${color.blue})`
rgbText(color) ==
    <<"rgb(", decimal(color.red), ", ", decimal(color.green), ", ",
      decimal(color.blue), ")">>

unknown == <<"unknown">>

Navy == [red |-> 48, green |-> 79, blue |-> 122]
Red  == [red |-> 255, green |-> 0, blue |-> 0]

\* What imageProperties may answer in dominantColors.colors, most dominant
\* first (the annotation may also be missing, or the call may throw).
ColorLists == { <<>>, <<Red, Navy>> }

\* getDominantColor after the call returned: the first dominant color as
\* text, 'unknown' when there is none.
dominantColorText(colors) ==
    IF Len(colors) > 0 THEN rgbText(colors[1]) ELSE unknown

\* getDominantColor reading the last entry of the list instead of the first.
getDominantColorLast(outcome, colors) ==
    IF outcome = "ok" /\ Len(colors) > 0
    THEN rgbText(colors[Len(colors)]) ELSE unknown

\* getDominantColor: the outcome of one call; the catch turns a throw into
\* 'unknown'.
getDominantColor(outcome, colors) ==
    IF outcome = "ok" THEN dominantColorText(colors) ELSE unknown

\* ------------------------------------------------------------ persistence
\* SQL ILIKE: % matches any run of characters, _ any one character, any
\* other character itself, letters compared without case.
RECURSIVE ilike(_, _)
ilike(s, p) ==
    IF p = <<>> THEN s = <<>>
    ELSE IF Head(p) = "%"
         THEN ilike(s, Tail(p)) \/ (s # <<>> /\ ilike(Tail(s), p))
         ELSE /\ s # <<>>
              /\ (Head(p) = "_" \/ ToLowerChar(Head(s)) = ToLowerChar(Head(p)))
              /\ ilike(Tail(s), Tail(p))

\* The query GET /wardrobe builds: .eq('user_id', id), then .ilike('type',
\* `%${type}%`) if (type), then .eq('color', color) if (color).
queryMatches(row, id, type, color) ==
    /\ row.user_id = id
    /\ truthy(type) => ilike(row.type, <<"%">> \o type.text \o <<"%">>)
    /\ truthy(color) => row.color = color.text

RECURSIVE selectRows(_, _, _, _)
selectRows(rows, id, type, color) ==
    IF rows = <<>> THEN <<>>
    ELSE IF queryMatches(Head(rows), id, type, color)
         THEN <<Head(rows)>> \o selectRows(Tail(rows), id, type, color)
         ELSE selectRows(Tail(rows), id, type, color)

\* .insert(items).select(): the rows as stored, each with the identifier the
\* database assigns.
insertedRows(table, items) ==
    [i \in 1..Len(items) |->
        [id |-> Len(table) + i, user_id |-> items[i].user_id,
         type |-> items[i].type, color |-> items[i].color]]

\* The rows the wardrobe table holds when the server starts (left by earlier
\* runs of the service).
SeedRows ==
    << [id |-> 1, user_id |-> "u1", type |-> Top,   color |-> rgbText(Navy)],
       [id |-> 2, user_id |-> "u2", type |-> JEANS, color |-> unknown],
       [id |-> 3, user_id |-> "u1", type |-> JEANS, color |-> unknown] >>

\* The query parameters a client may send.
TypeParams  == { None, Some(<<>>), Some(<<"O", "P">>), Some(<<"_">>) }
ColorParams == { None, Some(unknown), Some(rgbText(Navy)) }

\* ---------------------------------------------------------------- responses
NoText == ""
NoResponse ==
    [status |-> 0, error |-> NoText, details |-> NoText, message |-> NoText,
     hasItems |-> FALSE, items |-> <<>>]

\* An error body that never carries details.
errorResponseNoDetails(s, e, d) ==
    [status |-> s, error |-> e, details |-> NoText, message |-> NoText,
     hasItems |-> FALSE, items |-> <<>>]

\* res.status(s).json({ error }) and res.status(s).json({ error, details })
errorResponse(s, e, d) ==
    [status |-> s, error |-> e, details |-> d, message |-> NoText,
     hasItems |-> FALSE, items |-> <<>>]

\* res.status(200).json({ message, items })
itemsResponse(m, its) ==
    [status |-> 200, error |-> NoText, details |-> NoText, message |-> m,
     hasItems |-> TRUE, items |-> its]

\* The limiter's refusal: res.status(429).send(message)
tooManyResponse ==
    [status |-> 429, error |-> NoText, details |-> NoText,
     message |-> "Too many requests from this IP, please try again after 15 minutes",
     hasItems |-> FALSE, items |-> <<>>]

\* Express's default error handler: status 500 and a page that is not one of
\* the handlers' JSON bodies.
defaultErrorResponse == errorResponse(500, NoText, NoText)

\* error.message || 'An unexpected server error occurred.'
detailsOf(message) ==
    IF message = NoText THEN "An unexpected server error occurred." ELSE message

\* ------------------------------------------------------------------ state
NoKey == [owner |-> NoUser, uuid |-> 0]

VARIABLES
    pc,                    \* where each request is
    req,                   \* the request: route, header, file, query
    user,                  \* req.user.id
    fileName,              \* let fileName
    resizedBuffer,         \* the format of resizedBuffer's bytes
    objects,               \* const objects
    clothingItemsToStore,  \* const clothingItemsToStore
    wardrobeData,          \* data of the insert
    caught,                \* message of the error the catch block holds
    response,              \* the response sent
    storage,               \* bucket 'photos': the objects it holds
    wardrobe,              \* table 'wardrobe'
    uuids,                 \* identifiers uuidv4 has handed out
    calls,                 \* history: each request's collaborator calls
    hits                   \* the limiter's store: requests counted this window

vars == <<pc, req, user, fileName, resizedBuffer, objects, clothingItemsToStore,
          wardrobeData, caught, response, storage, wardrobe, uuids, calls,
          hits>>

NoRequest ==
    [route |-> "none", header |-> None, file |-> NoFile,
     type |-> None, color |-> None]

Requests ==
    { [route |-> "/upload-photo", header |-> h, file |-> f,
       type |-> None, color |-> None] : h \in Headers, f \in Files }
    \cup
    { [route |-> "/wardrobe", header |-> h, file |-> NoFile,
       type |-> t, color |-> c] :
         h \in Headers, t \in TypeParams, c \in ColorParams }

Init ==
    /\ pc = [r \in Reqs |-> "idle"]
    /\ req = [r \in Reqs |-> NoRequest]
    /\ user = [r \in Reqs |-> NoUser]
    /\ fileName = [r \in Reqs |-> NoKey]
    /\ resizedBuffer = [r \in Reqs |-> "none"]
    /\ objects = [r \in Reqs |-> <<>>]
    /\ clothingItemsToStore = [r \in Reqs |-> <<>>]
    /\ wardrobeData = [r \in Reqs |-> <<>>]
    /\ caught = [r \in Reqs |-> NoText]
    /\ response = [r \in Reqs |-> NoResponse]
    /\ storage = {}
    /\ wardrobe = SeedRows
    /\ uuids = 0
    /\ calls = [r \in Reqs |-> <<>>]
    /\ hits = 0

\* detectedClothing: objects filtered by the clothing keywords.
detectedClothing(r) == filterClothing(objects[r])

\* ------------------------------------------------------------ small steps
respond(r, resp) ==
    /\ response' = [response EXCEPT ![r] = resp]
    /\ pc' = [pc EXCEPT ![r] = "done"]

goto(r, label) ==
    /\ pc' = [pc EXCEPT ![r] = label]
    /\ UNCHANGED response

\* One awaited collaborator call and how it ended.
called(r, what, result) ==
    calls' = [calls EXCEPT ![r] = Append(@, [call |-> what, result |-> result])]

\* A catch block that responds without removing the staged file.
throwInTryNoCleanup(r, message, key) ==
    /\ caught' = [caught EXCEPT ![r] = message]
    /\ respond(r, errorResponse(500, "Failed to process photo.",
                                detailsOf(message)))

\* A catch block that awaits the remove whether or not fileName is set.
throwInTryAlwaysCleanup(r, message, key) ==
    /\ caught' = [caught EXCEPT ![r] = message]
    /\ goto(r, "catchRemove")

\* throw inside the try block of POST /upload-photo: the catch block logs,
\* then awaits the remove of the staged file if (fileName), else responds 500.
throwInTry(r, message, key) ==
    /\ caught' = [caught EXCEPT ![r] = message]
    /\ IF key # NoKey
       THEN goto(r, "catchRemove")
       ELSE respond(r, errorResponse(500, "Failed to process photo.",
                                     detailsOf(message)))

\* ------------------------------------------------- limiter and authenticate
\* A limiter that lets one request too many through.
limitedOffByOne(totalHits) == totalHits > max + 1

\* The limiter refuses the request whose count exceeds max.
limited(totalHits) == totalHits > max

\* Request q arrives: app.use(limiter) counts it in the window of its address
\* and refuses it with 429 beyond max; otherwise authenticate runs up to its
\* await: no token, 401.  All requests of the model come from one address;
\* the count is kept up to max + 1, beyond which nothing changes.
limiterThenAuthenticate(r, q) ==
    /\ req' = [req EXCEPT ![r] = q]
    /\ hits' = IF hits <= max THEN hits + 1 ELSE hits
    /\ IF limited(hits + 1)
       THEN respond(r, tooManyResponse)
       ELSE IF ~truthy(tokenOf(q.header))
       THEN respond(r, errorResponse(401,
                "Authentication required: No token provided.", NoText))
       ELSE goto(r, "getUser")
    /\ UNCHANGED <<user, fileName, resizedBuffer, objects, clothingItemsToStore,
                   wardrobeData, caught, storage, wardrobe, uuids, calls>>

Arrive(r) ==
    /\ pc[r] = "idle"
    /\ \E q \in Requests : limiterThenAuthenticate(r, q)

\* next() after authenticate: multer parses the body of an upload; the
\* wardrobe handler runs up to its awaited query.
afterAuthenticate(r) ==
    IF req[r].route = "/upload-photo" THEN goto(r, "multer") ELSE goto(r, "query")

\* await supabase.auth.getUser(token): a user, an error, no user, or a throw.
GetUser(r) ==
    /\ pc[r] = "getUser"
    /\ \/ \E u \in Users :
            /\ called(r, "auth", "user")
            /\ user' = [user EXCEPT ![r] = u]
            /\ afterAuthenticate(r)
       \/ /\ called(r, "auth", "error")
          /\ respond(r, errorResponse(401,
                 "Authentication failed: Invalid token.", NoText))
          /\ UNCHANGED user
       \/ /\ called(r, "auth", "nouser")
          /\ respond(r, errorResponse(401,
                 "Authentication failed: User not found.", NoText))
          /\ UNCHANGED user
       \/ /\ called(r, "auth", "throw")
          /\ respond(r, errorResponse(500,
                 "An unexpected error occurred during authentication.", NoText))
          /\ UNCHANGED user
    /\ UNCHANGED <<hits, req, fileName, resizedBuffer, objects, clothingItemsToStore,
                   wardrobeData, caught, storage, wardrobe, uuids>>

\* ------------------------------------------------------- POST /upload-photo
\* upload.single('photo'): a part the fileFilter or the size limit refuses
\* makes multer pass its error to next(err), which no handler of the
\* application takes, so Express's default error handler answers.  Otherwise
\* the route handler starts: 400 without req.file, else up to await sharp.
Multer(r) ==
    /\ pc[r] = "multer"
    /\ LET file == req[r].file IN
       IF file = NoFile
       THEN respond(r, errorResponse(400,
                "No photo uploaded or file validation failed.", NoText))
       ELSE IF ~fileFilter(file) \/ ~withinLimit(file)
       THEN respond(r, defaultErrorResponse)
       ELSE goto(r, "resize")
    /\ UNCHANGED <<hits, req, user, fileName, resizedBuffer, objects,
                   clothingItemsToStore, wardrobeData, caught, storage,
                   wardrobe, uuids, calls>>

\* await sharp(...).resize(...).toBuffer(): no output format is set, so the
\* bytes keep the format of the input.  Then fileName is built from a fresh
\* uuid and the storage upload is awaited.
Resize(r) ==
    /\ pc[r] = "resize"
    /\ \/ /\ resizedBuffer' = [resizedBuffer EXCEPT ![r] = req[r].file.format]
          /\ uuids' = uuids + 1
          /\ fileName' = [fileName EXCEPT
                            ![r] = [owner |-> user[r], uuid |-> uuids + 1]]
          /\ goto(r, "upload")
          /\ UNCHANGED caught
       \/ /\ throwInTry(r, "Input buffer contains unsupported image format",
                        fileName[r])
          /\ UNCHANGED <<resizedBuffer, uuids, fileName>>
    /\ UNCHANGED <<hits, req, user, objects, clothingItemsToStore, wardrobeData,
                   storage, wardrobe, calls>>

\* await supabase.storage.from('photos').upload(fileName, resizedBuffer, ...)
Upload(r) ==
    /\ pc[r] = "upload"
    /\ \/ /\ called(r, "put", "ok")
          /\ storage' = storage \cup
                 {[key |-> fileName[r], contentType |-> "image/jpeg",
                   format |-> resizedBuffer[r]]}
          /\ goto(r, "detect")
          /\ UNCHANGED caught
       \/ /\ called(r, "put", "error")
          /\ throwInTry(r, "Failed to upload photo to storage.", fileName[r])
          /\ UNCHANGED storage
       \/ /\ called(r, "put", "throw")
          /\ throwInTry(r, "storage upload threw", fileName[r])
          /\ UNCHANGED storage
    /\ UNCHANGED <<hits, req, user, fileName, resizedBuffer, objects,
                   clothingItemsToStore, wardrobeData, wardrobe, uuids>>

\* A handler that goes from the detections straight to the insert.
afterDetectSkipColor(r, objs) ==
    IF objs = <<>> THEN goto(r, "removeNoObjects")
    ELSE IF filterClothing(objs) = <<>> THEN goto(r, "removeNoClothing")
    ELSE goto(r, "insert")

\* After objectLocalization returned: the checks and the filter up to the
\* next await, which is a remove or the first getDominantColor.
afterDetect(r, objs) ==
    IF objs = <<>> THEN goto(r, "removeNoObjects")
    ELSE IF filterClothing(objs) = <<>> THEN goto(r, "removeNoClothing")
    ELSE goto(r, "color")

\* await visionClient.objectLocalization(...): a list, no list, or a throw.
Detect(r) ==
    /\ pc[r] = "detect"
    /\ \/ \E objs \in ObjectLists :
            /\ called(r, "detect", "objects")
            /\ objects' = [objects EXCEPT ![r] = objs]
            /\ afterDetect(r, objs)
            /\ UNCHANGED caught
       \/ /\ called(r, "detect", "missing")
          /\ objects' = [objects EXCEPT ![r] = <<>>]
          /\ goto(r, "removeNoObjects")
          /\ UNCHANGED caught
       \/ /\ called(r, "detect", "throw")
          /\ throwInTry(r, "vision objectLocalization threw", fileName[r])
          /\ UNCHANGED objects
    /\ UNCHANGED <<hits, req, user, fileName, resizedBuffer, clothingItemsToStore,
                   wardrobeData, storage, wardrobe, uuids>>

\* A remove that takes the owner's whole folder.
removedFolder(key) == {o \in storage : o.key.owner # key.owner}

\* supabase.storage.from('photos').remove([fileName]) when it succeeds: the
\* object is gone.
removed(key) == {o \in storage : o.key # key}

\* One awaited remove inside the try block whose result is not looked at (or
\* only logged), followed by the response resp; a throw goes to the catch.
removeThenRespond(r, resp) ==
    /\ \/ /\ called(r, "delete", "ok")
          /\ storage' = removed(fileName[r])
          /\ respond(r, resp)
          /\ UNCHANGED caught
       \/ /\ called(r, "delete", "error")
          /\ respond(r, resp)
          /\ UNCHANGED <<storage, caught>>
       \/ /\ called(r, "delete", "throw")
          /\ throwInTry(r, "storage remove threw", fileName[r])
          /\ UNCHANGED storage
    /\ UNCHANGED <<hits, req, user, fileName, resizedBuffer, objects,
                   clothingItemsToStore, wardrobeData, wardrobe, uuids>>

RemoveNoObjects(r) ==
    /\ pc[r] = "removeNoObjects"
    /\ removeThenRespond(r, itemsResponse(
           "Analysis complete: No objects detected in the photo.", <<>>))

RemoveNoClothing(r) ==
    /\ pc[r] = "removeNoClothing"
    /\ removeThenRespond(r, itemsResponse(
           "Analysis complete: No clothing items detected in the photo.", <<>>))

\* How one imageProperties call ended, as the history records it.
colorResult(outcome, colors) ==
    IF outcome = "ok" /\ Len(colors) > 0 THEN "dominant" ELSE "failed"

\* One turn of the loop over detectedClothing: await getDominantColor, push
\* the item; after the last one the insert is awaited.
Color(r) ==
    /\ pc[r] = "color"
    /\ LET item == detectedClothing(r)[Len(clothingItemsToStore[r]) + 1] IN
       \E outcome \in {"ok", "throw"}, colors \in ColorLists :
          /\ outcome = "throw" => colors = <<>>
          /\ called(r, "color", colorResult(outcome, colors))
          /\ clothingItemsToStore' = [clothingItemsToStore EXCEPT ![r] =
                 Append(@, [user_id |-> user[r], type |-> item,
                            color |-> getDominantColor(outcome, colors)])]
    /\ IF Len(clothingItemsToStore[r]) + 1 < Len(detectedClothing(r))
       THEN goto(r, "color")
       ELSE goto(r, "insert")
    /\ UNCHANGED <<hits, req, user, fileName, resizedBuffer, objects, wardrobeData,
                   caught, storage, wardrobe, uuids>>

\* await supabase.from('wardrobe').insert(clothingItemsToStore).select()
Insert(r) ==
    /\ pc[r] = "insert"
    /\ \/ /\ called(r, "insert", "ok")
          /\ wardrobe' = wardrobe \o insertedRows(wardrobe, clothingItemsToStore[r])
          /\ wardrobeData' = [wardrobeData EXCEPT
                 ![r] = insertedRows(wardrobe, clothingItemsToStore[r])]
          /\ goto(r, "remove")
          /\ UNCHANGED caught
       \/ /\ called(r, "insert", "error")
          /\ throwInTry(r, "Failed to save clothing details to the database.",
                        fileName[r])
          /\ UNCHANGED <<wardrobe, wardrobeData>>
       \/ /\ called(r, "insert", "throw")
          /\ throwInTry(r, "database insert threw", fileName[r])
          /\ UNCHANGED <<wardrobe, wardrobeData>>
    /\ UNCHANGED <<hits, req, user, fileName, resizedBuffer, objects,
                   clothingItemsToStore, storage, uuids>>

\* Step 5: the remove after a successful insert; deleteError is only logged.
Remove(r) ==
    /\ pc[r] = "remove"
    /\ removeThenRespond(r, itemsResponse(
           "Photo processed, clothing saved, and photo deleted successfully.",
           wardrobeData[r]))

\* The catch block's remove, then the 500 with the caught error's message.  A
\* throw of this remove leaves the async handler's promise rejected: Express 4
\* sends nothing for it, Express 5 hands it to the default error handler.
CatchRemove(r) ==
    /\ pc[r] = "catchRemove"
    /\ LET resp == errorResponse(500, "Failed to process photo.",
                                 detailsOf(caught[r])) IN
       \/ /\ called(r, "delete", "ok")
          /\ storage' = removed(fileName[r])
          /\ respond(r, resp)
       \/ /\ called(r, "delete", "error")
          /\ respond(r, resp)
          /\ UNCHANGED storage
       \/ /\ called(r, "delete", "throw")
          /\ goto(r, "unhandled")
          /\ UNCHANGED storage
       \/ /\ called(r, "delete", "throw")
          /\ respond(r, defaultErrorResponse)
          /\ UNCHANGED storage
    /\ UNCHANGED <<hits, req, user, fileName, resizedBuffer, objects,
                   clothingItemsToStore, wardrobeData, caught, wardrobe, uuids>>

\* ------------------------------------------------------------ GET /wardrobe
\* res.status(200).json(data)
dataResponse(data) ==
    [status |-> 200, error |-> NoText, details |-> NoText, message |-> NoText,
     hasItems |-> TRUE, items |-> data]

\* await query: the rows the built query selects, or an error, or a throw.
Query(r) ==
    /\ pc[r] = "query"
    /\ \/ /\ called(r, "query", "ok")
          /\ respond(r, dataResponse(
                 selectRows(wardrobe, user[r], req[r].type, req[r].color)))
       \/ /\ called(r, "query", "error")
          /\ respond(r, errorResponse(500, "Failed to retrieve wardrobe.",
                                      "Failed to retrieve wardrobe data."))
       \/ /\ called(r, "query", "throw")
          /\ respond(r, errorResponse(500, "Failed to retrieve wardrobe.",
                                      detailsOf("database query threw")))
    /\ UNCHANGED <<hits, req, user, fileName, resizedBuffer, objects,
                   clothingItemsToStore, wardrobeData, caught, storage,
                   wardrobe, uuids>>

Next ==
    \E r \in Reqs :
        \/ Arrive(r)
        \/ GetUser(r)
        \/ Multer(r)
        \/ Resize(r)
        \/ Upload(r)
        \/ Detect(r)
        \/ RemoveNoObjects(r)
        \/ RemoveNoClothing(r)
        \/ Color(r)
        \/ Insert(r)
        \/ Remove(r)
        \/ CatchRemove(r)
        \/ Query(r)

Spec == Init /\ [][Next]_vars

\* ------------------------------------------------------ the limiter's window
\* The requests that never stage an image: uploads without a part or with a
\* part multer refuses, and wardrobe queries without filters.  With them the
\* table, the bucket and the identifiers stay as they are, however many
\* requests are served.
LightRequests ==
    { q \in Requests :
        /\ q.file = NoFile \/ ~fileFilter(q.file) \/ ~withinLimit(q.file)
        /\ q.type = None /\ q.color = None }

ArriveLight(r) ==
    /\ pc[r] = "idle"
    /\ \E q \in LightRequests : limiterThenAuthenticate(r, q)

\* The server goes on listening: once a request has ended, a later request
\* is served with fresh locals.
NextRequest(r) ==
    /\ pc[r] \in {"done", "unhandled"}
    /\ pc' = [pc EXCEPT ![r] = "idle"]
    /\ req' = [req EXCEPT ![r] = NoRequest]
    /\ user' = [user EXCEPT ![r] = NoUser]
    /\ fileName' = [fileName EXCEPT ![r] = NoKey]
    /\ resizedBuffer' = [resizedBuffer EXCEPT ![r] = "none"]
    /\ objects' = [objects EXCEPT ![r] = <<>>]
    /\ clothingItemsToStore' = [clothingItemsToStore EXCEPT ![r] = <<>>]
    /\ wardrobeData' = [wardrobeData EXCEPT ![r] = <<>>]
    /\ caught' = [caught EXCEPT ![r] = NoText]
    /\ response' = [response EXCEPT ![r] = NoResponse]
    /\ calls' = [calls EXCEPT ![r] = <<>>]
    /\ UNCHANGED <<storage, wardrobe, uuids, hits>>

\* windowMs has passed: the limiter's store forgets the address's count.
WindowReset ==
    /\ hits > 0
    /\ hits' = 0
    /\ UNCHANGED <<pc, req, user, fileName, resizedBuffer, objects,
                   clothingItemsToStore, wardrobeData, caught, response,
                   storage, wardrobe, uuids, calls>>

\* The server over many requests and windows, serving light requests.
LimiterNext ==
    \/ \E r \in Reqs :
          \/ ArriveLight(r)
          \/ GetUser(r)
          \/ Multer(r)
          \/ Query(r)
          \/ NextRequest(r)
    \/ WindowReset

LimiterSpec == Init /\ [][LimiterNext]_vars

\* ================================================================== claims
\* Vocabulary of the properties, stated over the history of calls.
isUpload(r) == req[r].route = "/upload-photo"
isWardrobe(r) == req[r].route = "/wardrobe"

did(r, what, result) ==
    \E i \in DOMAIN calls[r] : calls[r][i] = [call |-> what, result |-> result]

callCount(r, what) == Cardinality({i \in DOMAIN calls[r] : calls[r][i].call = what})

isColorCall(c) == c.call = "color"
isRemoveCall(c) == c.call = "delete"
colorCalls(r) == SelectSeq(calls[r], isColorCall)
removeCalls(r) == SelectSeq(calls[r], isRemoveCall)

\* The outcome of the request's last storage delete, "none" without one.
lastRemove(r) ==
    IF removeCalls(r) = <<>> THEN "none"
    ELSE removeCalls(r)[Len(removeCalls(r))].result

staged(r) == did(r, "put", "ok")
inStorage(key) == \E o \in storage : o.key = key

\* The request has its terminal outcome: a response was sent.
responded(r) == pc[r] = "done"
\* The handler has stopped, with or without a response.
finished(r) == pc[r] \in {"done", "unhandled"}

\* The header carries a bearer token: a non-empty word right after the first
\* space.
bearerToken(h) ==
    /\ h.present
    /\ \E i \in 1..(Len(h.text) - 1) :
          /\ h.text[i] = " "
          /\ \A j \in 1..(i - 1) : h.text[j] # " "
          /\ h.text[i + 1] # " "

\* The label, lower-cased, contains one of the ten clothing keywords.
hasKeyword(name) ==
    \E kw \in clothingKeywords :
       \E i \in 1..Len(name) :
          /\ i + Len(kw) - 1 <= Len(name)
          /\ \A k \in 1..Len(kw) : ToLowerChar(name[i + k - 1]) = kw[k]

clothingCount(r) == Cardinality({i \in DOMAIN objects[r] : hasKeyword(objects[r][i])})

\* ---------------------------------------------------------------------- C1
\* C1 (as claimed): whenever a request whose image was staged has its
\* terminal outcome, the staged key is no longer in storage, whatever the
\* outcomes of the later calls, a failing delete included.
C1_KeyGoneAtOutcome ==
    \A r \in Reqs : responded(r) /\ staged(r) => ~inStorage(fileName[r])

\* C1 (amended): whenever a request whose image was staged has its terminal
\* outcome, a delete of the staged key has been issued, and the key is no
\* longer in storage if the last delete issued succeeded.
C1_DeleteIssuedAtOutcome ==
    \A r \in Reqs :
       responded(r) /\ staged(r) =>
          /\ lastRemove(r) # "none"
          /\ lastRemove(r) = "ok" => ~inStorage(fileName[r])

\* A staged upload whose first delete threw inside the try block and whose
\* delete in the catch block succeeded: 500, and the key is gone.
C1_Witness ==
    \E r \in Reqs :
       /\ responded(r) /\ staged(r)
       /\ did(r, "delete", "throw") /\ lastRemove(r) = "ok"
       /\ response[r].status = 500
       /\ ~inStorage(fileName[r])

\* ---------------------------------------------------------------------- C2
\* The part is there and is refused by the validation: wrong type or too big.
invalidFile(f) ==
    /\ f # NoFile
    /\ f.size > 5 * 1024 * 1024 \/ f.mimetype \notin {"image/jpeg", "image/png"}

\* C2 (as claimed): an upload with an oversized or wrong-mimetype file, sent
\* by a caller whose token is good, is answered 400, and no collaborator call
\* (auth, storage, analysis, persistence) has been made for it.
C2_RejectedBeforeAnyCall ==
    \A r \in Reqs :
       isUpload(r) /\ invalidFile(req[r].file) /\ user[r] # NoUser /\ responded(r) =>
          /\ response[r].status = 400
          /\ calls[r] = <<>>

zeroObjects(r) ==
    \/ did(r, "detect", "missing")
    \/ did(r, "detect", "objects") /\ objects[r] = <<>>

emptyResult(r) ==
    /\ response[r].status = 200
    /\ response[r].hasItems
    /\ response[r].items = <<>>

\* C4 (as claimed): an upload for which detection returns zero objects ends
\* 200 with an empty items list, without a color call or an insert, and with
\* the transient image gone from storage.
C4_ZeroObjectsEmptyResult ==
    \A r \in Reqs :
       zeroObjects(r) /\ finished(r) =>
          /\ emptyResult(r)
          /\ callCount(r, "color") = 0
          /\ callCount(r, "insert") = 0
          /\ ~inStorage(fileName[r])

\* ---------------------------------------------------------------------- C5
\* C5 (as claimed): the handler goes on to the color step exactly when some
\* detected label, lower-cased, contains a clothing keyword; when detection
\* returned objects and none is retained, the upload ends 200 with items = [],
\* without an insert, and with the transient image removed.
C5_FilterThenEmptyResult ==
    \A r \in Reqs :
       /\ pc[r] = "removeNoClothing" => clothingCount(r) = 0
       /\ pc[r] \in {"color", "insert", "remove"} => clothingCount(r) > 0
       /\ Len(clothingItemsToStore[r]) <= clothingCount(r)
       /\ did(r, "detect", "objects") /\ objects[r] # <<>>
             /\ clothingCount(r) = 0 /\ finished(r) =>
             /\ emptyResult(r)
             /\ callCount(r, "insert") = 0
             /\ ~inStorage(fileName[r])

\* ---------------------------------------------------------------------- C6
\* The labels of the detections that contain a clothing keyword, in order.
RECURSIVE clothingLabels(_)
clothingLabels(objs) ==
    IF objs = <<>> THEN <<>>
    ELSE IF hasKeyword(Head(objs))
         THEN <<Head(objs)>> \o clothingLabels(Tail(objs))
         ELSE clothingLabels(Tail(objs))

\* C6 (as claimed): an upload with a clothing-matching detection and a
\* successful insert made one insert of one record per matching detection,
\* and returns as many items as there are matching detections, each with the
\* caller as owner and the detection's label as category.
C6_OneItemPerDetection ==
    \A r \in Reqs :
       did(r, "insert", "ok") /\ finished(r) =>
          /\ callCount(r, "insert") = 1
          /\ Len(clothingItemsToStore[r]) = clothingCount(r)
          /\ response[r].hasItems
          /\ Len(response[r].items) = clothingCount(r)
          /\ \A i \in DOMAIN response[r].items :
                /\ response[r].items[i].user_id = user[r]
                /\ response[r].items[i].type = clothingLabels(objects[r])[i]

\* ---------------------------------------------------------------------- C7
\* The message of the error a failed insert raises.
insertMessage(r) ==
    IF did(r, "insert", "error")
    THEN "Failed to save clothing details to the database."
    ELSE "database insert threw"

\* C7 (as claimed): after a failed color call the request still makes the
\* insert and responds according to its outcome (200 with the items, or 500
\* with the insert's error), and the items whose color call failed carry
\* "unknown".
C7_ColorFailureNotFatal ==
    \A r \in Reqs :
       (\E i \in DOMAIN colorCalls(r) : colorCalls(r)[i].result = "failed")
          /\ finished(r) =>
          /\ callCount(r, "insert") = 1
          /\ \A i \in DOMAIN colorCalls(r) :
                colorCalls(r)[i].result = "failed" =>
                   clothingItemsToStore[r][i].color = unknown
          /\ IF did(r, "insert", "ok")
             THEN /\ response[r].status = 200
                  /\ response[r].items = wardrobeData[r]
             ELSE /\ response[r].status = 500
                  /\ response[r].details = insertMessage(r)

\* ---------------------------------------------------------------------- C8
\* C8 (as claimed): all records of one upload's batch have the same color,
\* whatever the outcomes of the individual color calls.
C8_AllItemsSameColor ==
    \A r \in Reqs :
       \A i, j \in DOMAIN clothingItemsToStore[r] :
          clothingItemsToStore[r][i].color = clothingItemsToStore[r][j].color

\* C8 (amended): each record's color comes from its own color call on the
\* whole image: "unknown" when that call failed, else the text of the first
\* dominant color reported (Red heads every non-empty list of ColorLists); so
\* the records of one upload have the same color whenever their color calls
\* have the same outcome.
C8_ColorPerCall ==
    \A r \in Reqs :
       /\ Len(colorCalls(r)) = Len(clothingItemsToStore[r])
       /\ \A i \in DOMAIN clothingItemsToStore[r] :
             clothingItemsToStore[r][i].color =
                IF colorCalls(r)[i].result = "failed" THEN unknown
                ELSE rgbText(Red)
       /\ \A i, j \in DOMAIN clothingItemsToStore[r] :
             colorCalls(r)[i].result = colorCalls(r)[j].result =>
                clothingItemsToStore[r][i].color = clothingItemsToStore[r][j].color

\* Two retained detections, the first color call answered, the second
\* failed, the batch inserted and returned.
C8_Witness ==
    \E r \in Reqs :
       /\ Len(clothingItemsToStore[r]) = 2
       /\ clothingItemsToStore[r][1].color = rgbText(Red)
       /\ clothingItemsToStore[r][2].color = unknown
       /\ did(r, "insert", "ok")
       /\ response[r].status = 200

\* ---------------------------------------------------------------------- C9
\* The message of the error that sent the handler to its catch block before
\* any delete was tried, "" when there is none.
earlierError(r) ==
    IF did(r, "put", "error") THEN "Failed to upload photo to storage."
    ELSE IF did(r, "put", "throw") THEN "storage upload threw"
    ELSE IF did(r, "detect", "throw") THEN "vision objectLocalization threw"
    ELSE IF did(r, "insert", "error") \/ did(r, "insert", "throw")
    THEN insertMessage(r)
    ELSE NoText

removeFailed(r) == did(r, "delete", "error") \/ did(r, "delete", "throw")

\* C9 (as claimed): a failed delete never overrides the primary outcome:
\* after a successful insert the response is still 200 with the persisted
\* items; while handling an earlier error the 500 still reports that error.
C9_CleanupNeverOverrides ==
    \A r \in Reqs :
       finished(r) /\ removeFailed(r) =>
          /\ did(r, "insert", "ok") =>
                /\ response[r].status = 200
                /\ response[r].items = wardrobeData[r]
          /\ earlierError(r) # NoText =>
                /\ response[r].status = 500
                /\ response[r].details = earlierError(r)

\* --------------------------------------------------------------------- C10
\* The stored type contains the text, letters compared without case.
containsNoCase(s, t) ==
    \E i \in 0..(Len(s) - Len(t)) :
       \A k \in 1..Len(t) : ToLowerChar(s[i + k]) = ToLowerChar(t[k])

satisfiesFilters(row, id, type, color) ==
    /\ row.user_id = id
    /\ type.present => containsNoCase(row.type, type.text)
    /\ color.present => row.color = color.text

RECURSIVE rowsSatisfying(_, _, _, _)
rowsSatisfying(rows, id, type, color) ==
    IF rows = <<>> THEN <<>>
    ELSE IF satisfiesFilters(Head(rows), id, type, color)
         THEN <<Head(rows)>> \o rowsSatisfying(Tail(rows), id, type, color)
         ELSE rowsSatisfying(Tail(rows), id, type, color)

\* C10 (as claimed): a 200 from GET /wardrobe holds exactly the rows, of the
\* table as it was at the query, that the caller owns and that satisfy every
\* supplied filter: type a case-insensitive substring of the stored type,
\* color equal to the stored color.
C10_ExactlyOwnFilteredRows ==
    \A r \in Reqs :
       isWardrobe(r) /\ did(r, "query", "ok") =>
          /\ \A i \in DOMAIN response[r].items :
                response[r].items[i].user_id = user[r]
          /\ \E k \in 0..Len(wardrobe) :
                response[r].items =
                   rowsSatisfying(SubSeq(wardrobe, 1, k), user[r],
                                  req[r].type, req[r].color)

\* --------------------------------------------------------------------- C11
\* The storage put of the request failed: it returned an error or threw.
stagingFailed(r) == did(r, "put", "error") \/ did(r, "put", "throw")

\* C11 (as claimed): when the storage put fails, no detection call, no color
\* call and no insert is made for the request, nothing of it is persisted,
\* and the request ends with the handler's 500 reporting the storage error.
C11_StagingFailureEnds500 ==
    \A r \in Reqs :
       stagingFailed(r) =>
          /\ callCount(r, "detect") = 0
          /\ callCount(r, "color") = 0
          /\ callCount(r, "insert") = 0
          /\ wardrobeData[r] = <<>>
          /\ finished(r) =>
                /\ responded(r)
                /\ response[r].status = 500
                /\ response[r].error = "Failed to process photo."
                /\ response[r].details = earlierError(r)

\* --------------------------------------------------------------------- C12
\* After a successful staging the detection threw or the insert failed.
analysisOrInsertFailed(r) ==
    /\ staged(r)
    /\ \/ did(r, "detect", "throw")
       \/ did(r, "insert", "error")
       \/ did(r, "insert", "throw")

\* C12 (as claimed): when the detection call throws or the insert fails after
\* a successful staging, the handler ends with a 500 whose details is the
\* message of that original error, and a delete of the staged key was issued
\* before that response.
C12_CleanupThenOriginalError ==
    \A r \in Reqs :
       analysisOrInsertFailed(r) /\ finished(r) =>
          /\ lastRemove(r) # "none"
          /\ responded(r)
          /\ response[r].status = 500
          /\ response[r].details = earlierError(r)

\* --------------------------------------------------------------------- C13
\* C13 (as claimed): every object the storage put has written holds JPEG
\* bytes, as its content type image/jpeg and its .jpg key say, whether the
\* accepted upload was a JPEG or a PNG.
C13_StagedImageIsJpeg ==
    \A o \in storage :
       /\ o.contentType = "image/jpeg"
       /\ o.format = "jpeg"

\* --------------------------------------------------------------------- C14
isFailure(r) == responded(r) /\ response[r].status \in {400, 401, 500}

fromDefaultHandler(r) ==
    /\ user[r] # NoUser
    /\ isUpload(r)
    /\ invalidFile(req[r].file) \/ lastRemove(r) = "throw"

rank(c) ==
    CASE c.call = "put" -> 1
      [] c.call = "detect" -> 2
      [] c.call = "color" -> 3
      [] c.call = "insert" -> 4
      [] c.call = "delete" -> 5
      [] OTHER -> 0

\* A stage, detect or persist call that failed.
chainCallFailed(c) ==
    \/ c.call = "put" /\ c.result \in {"error", "throw"}
    \/ c.call = "detect" /\ c.result = "throw"
    \/ c.call = "insert" /\ c.result \in {"error", "throw"}

\* C15: the remote calls of one upload are issued one after the other in the
\* order stage, detect, color, persist, cleanup; stage, detect and persist at
\* most once each; each call only after the one before it succeeded; one
\* color call per retained detection before the insert; and after a failed
\* stage, detect or persist only cleanup calls follow.
C15_SequentialChainNoRetry ==
    \A r \in Reqs :
       isUpload(r) =>
          /\ \A i, j \in DOMAIN calls[r] :
                i < j => /\ rank(calls[r][i]) <= rank(calls[r][j])
                         /\ chainCallFailed(calls[r][i]) => calls[r][j].call = "delete"
          /\ callCount(r, "put") <= 1
          /\ callCount(r, "detect") <= 1
          /\ callCount(r, "insert") <= 1
          /\ callCount(r, "detect") = 1 => staged(r)
          /\ callCount(r, "color") > 0 => did(r, "detect", "objects")
          /\ callCount(r, "color") <= clothingCount(r)
          /\ callCount(r, "insert") = 1 =>
                /\ clothingCount(r) > 0
                /\ callCount(r, "color") = clothingCount(r)
          /\ callCount(r, "delete") > 0 => callCount(r, "put") = 1

\* One upload went through the whole chain with two color calls, another
\* stopped at a detection that threw and only issued its cleanup.
C15_Witness ==
    \E r, q \in Reqs :
       /\ isUpload(r) /\ responded(r)
       /\ staged(r) /\ did(r, "detect", "objects")
       /\ callCount(r, "color") = 2
       /\ did(r, "insert", "ok") /\ did(r, "delete", "ok")
       /\ isUpload(q) /\ did(q, "detect", "throw")
       /\ callCount(q, "delete") = 1
       /\ callCount(q, "color") = 0 /\ callCount(q, "insert") = 0

\* --------------------------------------------------------------------- C16
\* The request's staged image is still its to clean up: staged, the handler
\* still running, and no delete of its own has succeeded.
stagedUnfinished(r) ==
    staged(r) /\ ~finished(r) /\ ~did(r, "delete", "ok")

\* C16: under every interleaving of the requests, no two requests hold the
\* same storage key, whether their owners are the same or not, and the image
\* a request staged stays in storage until that request's own delete: no
\* other request's cleanup removes it.
C16_FreshKeyIsolation ==
    \A r, q \in Reqs :
       r # q =>
          /\ fileName[r] # NoKey /\ fileName[q] # NoKey => fileName[r] # fileName[q]
          /\ stagedUnfinished(r) => inStorage(fileName[r])

\* Two uploads of the same owner, both staged; one has deleted its image and
\* answered, the image of the other, still running, is in storage.
C16_Witness ==
    \E r, q \in Reqs :
       /\ r # q
       /\ user[r] = user[q]
       /\ staged(r) /\ staged(q)
       /\ did(q, "delete", "ok") /\ responded(q)
       /\ ~inStorage(fileName[q])
       /\ stagedUnfinished(r) /\ inStorage(fileName[r])

\* --------------------------------------------------------------------- C17
\* The request went past authenticate: multer or a handler has it, or a call
\* other than the authentication call was made for it.
passedOn(r) ==
    \/ pc[r] \notin {"idle", "getUser", "done"}
    \/ \E i \in DOMAIN calls[r] : calls[r][i].call # "auth"
    \/ responded(r) /\ response[r].status \in {200, 400}

\* C17: authenticate has four failure outcomes: no token, 401 without any
\* call of the auth collaborator; the collaborator reports an error, 401
\* 'Invalid token'; it returns no user, 401 'User not found'; it throws, 500.
\* A request is passed on only when a user was returned without error, and
\* then that user is the identity the handler works with.
C17_FourAuthOutcomes ==
    \A r \in Reqs :
       req[r].route # "none" =>
          /\ ~bearerToken(req[r].header) =>
                /\ calls[r] = <<>>
                /\ responded(r) /\ response[r].status = 401
                /\ response[r].error = "Authentication required: No token provided."
          /\ did(r, "auth", "error") =>
                /\ responded(r) /\ response[r].status = 401
                /\ response[r].error = "Authentication failed: Invalid token."
          /\ did(r, "auth", "nouser") =>
                /\ responded(r) /\ response[r].status = 401
                /\ response[r].error = "Authentication failed: User not found."
          /\ did(r, "auth", "throw") =>
                /\ responded(r) /\ response[r].status = 500
                /\ response[r].error =
                      "An unexpected error occurred during authentication."
          /\ ~did(r, "auth", "user") => ~passedOn(r) /\ user[r] = NoUser
          /\ did(r, "auth", "user") =>
                /\ callCount(r, "auth") = 1
                /\ user[r] \in Users
                /\ fileName[r] # NoKey => fileName[r].owner = user[r]
                /\ \A i \in DOMAIN clothingItemsToStore[r] :
                      clothingItemsToStore[r][i].user_id = user[r]

\* One request whose authentication call threw and was answered 500, another
\* that was passed on and staged an image under its user's identity.
C17_Witness ==
    \E r, q \in Reqs :
       /\ did(r, "auth", "throw") /\ response[r].status = 500
       /\ ~passedOn(r)
       /\ did(q, "auth", "user") /\ passedOn(q)
       /\ staged(q) /\ fileName[q].owner = user[q]

\* --------------------------------------------------------------------- C18
\* The limiter refused the request.
rateLimited(r) == responded(r) /\ response[r].status = 429

\* C18: a request that arrives when its address has used the quota of the
\* window (max requests counted) is refused by the limiter in that very step,
\* on either route: the authentication call is not made and no user is set,
\* and a refused request has made no auth, storage, analysis or persistence
\* call and has entered neither multer nor a handler.
C18_OverQuotaRefusedFirst ==
    /\ [](\A r \in Reqs :
            rateLimited(r) => calls[r] = <<>> /\ user[r] = NoUser)
    /\ [][\A r \in Reqs :
            pc[r] = "idle" /\ pc'[r] # "idle" /\ hits >= max =>
               /\ pc'[r] = "done"
               /\ response'[r] = tooManyResponse
               /\ calls'[r] = <<>>
               /\ user'[r] = NoUser]_vars

\* The quota of the window is used up and two requests, one on each route,
\* both with a good token, were refused without any call.
C18_Witness ==
    \E r, q \in Reqs :
       /\ hits > max
       /\ isUpload(r) /\ bearerToken(req[r].header)
       /\ rateLimited(r) /\ calls[r] = <<>>
       /\ isWardrobe(q) /\ bearerToken(req[q].header)
       /\ rateLimited(q) /\ calls[q] = <<>>

\* --------------------------------------------------------------------- C19
\* Some step of the request behind authenticate can be taken.
handlerStep(r) ==
    \/ Multer(r)
    \/ Resize(r)
    \/ Upload(r)
    \/ Detect(r)
    \/ RemoveNoObjects(r)
    \/ RemoveNoClothing(r)
    \/ Color(r)
    \/ Insert(r)
    \/ Remove(r)
    \/ CatchRemove(r)

\* C19 (as claimed): an upload that passed authentication never stops
\* without a response: until its one response is sent some step of it can
\* be taken, whatever the collaborators' outcomes were, a delete that throws
\* inside the catch block included; and a response, once sent, is final.
C19_NeverStuckUnanswered ==
    \A r \in Reqs :
       isUpload(r) /\ did(r, "auth", "user") =>
          /\ ~responded(r) => ENABLED handlerStep(r)
          /\ responded(r) =>
                /\ response[r].status # 0
                /\ ~ENABLED handlerStep(r)

\* --------------------------------------------------------------------- C20
\* C20 (as claimed): an upload answered 500 has persisted no wardrobe record;
\* put the other way, an upload whose insert succeeded ends with 200 and the
\* inserted records.
C20_FailureMeansNothingPersisted ==
    \A r \in Reqs :
       isUpload(r) =>
          /\ responded(r) /\ response[r].status = 500 => ~did(r, "insert", "ok")
          /\ finished(r) /\ did(r, "insert", "ok") =>
                /\ response[r].status = 200
                /\ response[r].items = wardrobeData[r]

\* --------------------------------------------------------------------- C21
\* The resize of the request threw: the catch block holds sharp's error.
resizeFailed(r) == caught[r] = "Input buffer contains unsupported image format"

\* C21: when the resize step fails, the request is answered 500 by the
\* handler's catch block with the resize error in details, in that very
\* step; its cleanup key is still empty; it has issued no storage put, no
\* storage delete, no analysis call and no insert (its only call is the
\* authentication); and the step leaves the bucket, the table and the
\* identifiers as they were.
C21_ResizeFailureTouchesNothing ==
    /\ [](\A r \in Reqs :
            resizeFailed(r) =>
               /\ responded(r)
               /\ response[r].status = 500
               /\ response[r].error = "Failed to process photo."
               /\ response[r].details = caught[r]
               /\ fileName[r] = NoKey
               /\ calls[r] = <<[call |-> "auth", result |-> "user"]>>
               /\ wardrobeData[r] = <<>>)
    /\ [][\A r \in Reqs :
            ~resizeFailed(r) /\ resizeFailed(r)' =>
               /\ pc[r] = "resize"
               /\ storage' = storage
               /\ wardrobe' = wardrobe
               /\ uuids' = uuids]_vars

\* One upload whose resize failed was answered 500 without any storage,
\* analysis or persistence call, while the image another upload staged is in
\* storage.
C21_Witness ==
    \E r, q \in Reqs :
       /\ isUpload(r) /\ resizeFailed(r)
       /\ responded(r) /\ response[r].status = 500
       /\ callCount(r, "put") = 0 /\ callCount(r, "delete") = 0
       /\ callCount(r, "detect") = 0 /\ callCount(r, "insert") = 0
       /\ stagedUnfinished(q) /\ inStorage(fileName[q])

====
